---- MODULE Spec2Model ----
(***************************************************************************)
(* Lintora: the audit job lifecycle (storage/store.py, core/queue.py,      *)
(* core/pipeline.py, api/routes.py) and the analysis engine                *)
(* (analysis/engine.py) as a state machine.                                *)
(*                                                                         *)
(* Optional values (Python's None) are sequences of length 0 or 1:         *)
(* <<>> is None and <<v>> is the value v, so None and "" stay distinct.    *)
(***************************************************************************)
EXTENDS Integers, Sequences, FiniteSets, TLC

\* ------------------------------------------------------------- bounds
\* Number of job ids the submission boundary hands out.
MaxJobs == 2
MaxQueueJobs == 3
\* Number of Solidity files an uploaded archive holds at most.
MaxFiles == 1
\* Length of the finding lists given to _deduplicate_findings on its own.
MaxLen == 3
\* Length of the finding lists given to calculate_risk_level on its own.
MaxRiskLen == 5
MaxKeys == 2

\* ---------------------------------------------------- program constants
\* core/queue.py: ThreadPoolExecutor(max_workers=2)
PoolWorkers == 2
\* analysis/engine.py: line_bucket = (f.line_number or 0) // 5
BucketSize == 5
\* models/schemas.py: line_number: Optional[int] = None
NoLine == -1
\* config.py: ANALYSIS_WORKERS = int(os.getenv("ANALYSIS_WORKERS", "4"))
AnalysisWorkers == 4

JobIds == 1..MaxJobs
\* The job ids of a run with more submissions than the queue has workers.
QueueJobIds == 1..MaxQueueJobs
FileIds == 1..MaxFiles

None == <<>>
Some(v) == <<v>>

\* models/schemas.py: JobStatus
PENDING == "pending"
PROCESSING == "processing"
COMPLETED == "completed"
FAILED == "failed"
JobStatus == {PENDING, PROCESSING, COMPLETED, FAILED}

\* models/schemas.py: FindingSource
HEURISTIC == "heuristic"
MYTHRIL == "mythril"
AI == "ai"
FindingSource == {HEURISTIC, MYTHRIL, AI}

\* models/schemas.py: Severity
Severity == {"critical", "high", "medium", "low", "info"}

\* models/schemas.py: FindingCategory (two of the eleven classes)
FindingCategory == {"reentrancy", "access_control"}

\* models/schemas.py: Finding; the fields the engine reads.
Finding(file, line, cat, src, sev) ==
    [file_path |-> file, line_number |-> line, category |-> cat,
     source |-> src, severity |-> sev]

\* ------------------------------------------------- analysis/engine.py
\* SourcePriority with every source given the same priority.
SourcePriorityFlat(src) == 1

\* SourcePriority with the AI analyzer trusted no more than the heuristic scan.
SourcePriorityAiAsHeuristic(src) ==
    CASE src = MYTHRIL -> 3
      [] src = AI -> 1
      [] src = HEURISTIC -> 1
      [] OTHER -> 0

\* SOURCE_PRIORITY.get(f.source, 0)
SourcePriority(src) ==
    CASE src = MYTHRIL -> 3
      [] src = AI -> 2
      [] src = HEURISTIC -> 1
      [] OTHER -> 0

\* LineBucket with "or -1": unlocated findings get a bucket of their own.
LineBucketOwnBucket(f) == f.line_number \div BucketSize

\* LineBucket rounding to the nearest multiple of the bucket size.
LineBucketRounded(f) ==
    ((IF f.line_number = NoLine THEN 0 ELSE f.line_number) + 2) \div BucketSize

\* (f.line_number or 0) // 5
LineBucket(f) ==
    (IF f.line_number = NoLine THEN 0 ELSE f.line_number) \div BucketSize

\* DedupKey without the category: findings of one place are one finding.
DedupKeyNoCategory(f) == <<f.file_path, LineBucket(f)>>

\* key = (f.file_path, line_bucket, f.category.value)
DedupKey(f) == <<f.file_path, LineBucket(f), f.category>>

\* InsertByPriority of an ascending sort that is then reversed: x goes in
\* front of the elements of its own priority.
RECURSIVE InsertByPriorityTiesReversed(_, _)
InsertByPriorityTiesReversed(x, s) ==
    IF s = <<>> THEN <<x>>
    ELSE IF SourcePriority(Head(s).source) > SourcePriority(x.source)
         THEN <<Head(s)>> \o InsertByPriorityTiesReversed(x, Tail(s))
         ELSE <<x>> \o s

\* InsertByPriority with the severity looked at first: a critical finding
\* goes in front of every finding that is not critical.
RECURSIVE InsertByPriorityCriticalFirst(_, _)
InsertByPriorityCriticalFirst(x, s) ==
    IF s = <<>> THEN <<x>>
    ELSE LET h == Head(s)
             hc == IF h.severity = "critical" THEN 1 ELSE 0
             xc == IF x.severity = "critical" THEN 1 ELSE 0
         IN IF hc > xc \/ (hc = xc /\ SourcePriority(h.source) >= SourcePriority(x.source))
            THEN <<h>> \o InsertByPriorityCriticalFirst(x, Tail(s))
            ELSE <<x>> \o s

\* One insertion of the stable descending sort: x goes behind every element
\* whose priority is at least its own.
RECURSIVE InsertByPriority(_, _)
InsertByPriority(x, s) ==
    IF s = <<>> THEN <<x>>
    ELSE IF SourcePriority(Head(s).source) >= SourcePriority(x.source)
         THEN <<Head(s)>> \o InsertByPriority(x, Tail(s))
         ELSE <<x>> \o s

\* SortedFindings without the sort: the loop runs over the list as given.
SortedFindingsUnsorted(fs) == fs

\* sorted(findings, key=priority, reverse=True): stable, descending.
RECURSIVE SortedFindings(_)
SortedFindings(fs) ==
    IF fs = <<>> THEN <<>>
    ELSE InsertByPriority(fs[Len(fs)], SortedFindings(SubSeq(fs, 1, Len(fs) - 1)))

\* DedupLoop without seen.add(key): every finding looks new.
RECURSIVE DedupLoopNoAdd(_, _, _)
DedupLoopNoAdd(rest, kept, seen) ==
    IF rest = <<>> THEN kept
    ELSE LET f == Head(rest)
             key == DedupKey(f)
         IN IF key \notin seen
            THEN DedupLoopNoAdd(Tail(rest), Append(kept, f), seen)
            ELSE DedupLoopNoAdd(Tail(rest), kept, seen)

\* The loop over sorted_findings: kept and seen grow together.
RECURSIVE DedupLoop(_, _, _)
DedupLoop(rest, kept, seen) ==
    IF rest = <<>> THEN kept
    ELSE LET f == Head(rest)
             key == DedupKey(f)
         IN IF key \notin seen
            THEN DedupLoop(Tail(rest), Append(kept, f), seen \cup {key})
            ELSE DedupLoop(Tail(rest), kept, seen)

DeduplicateFindings(findings) == DedupLoop(SortedFindings(findings), <<>>, {})

CountSeverity(findings, sev) ==
    Cardinality({i \in 1..Len(findings) : findings[i].severity = sev})

\* CalculateRiskLevel with "medium > 3" for "medium >= 3".
CalculateRiskLevelMediumOver3(findings) ==
    LET critical == CountSeverity(findings, "critical")
        high == CountSeverity(findings, "high")
        medium == CountSeverity(findings, "medium")
    IN IF critical > 0 THEN "CRITICAL"
       ELSE IF high >= 2 THEN "HIGH"
       ELSE IF high = 1 \/ medium > 3 THEN "MEDIUM"
       ELSE "LOW"

\* CalculateRiskLevel with "critical == 1" for "critical > 0".
CalculateRiskLevelOneCritical(findings) ==
    LET critical == CountSeverity(findings, "critical")
        high == CountSeverity(findings, "high")
        medium == CountSeverity(findings, "medium")
    IN IF critical = 1 THEN "CRITICAL"
       ELSE IF high >= 2 THEN "HIGH"
       ELSE IF high = 1 \/ medium >= 3 THEN "MEDIUM"
       ELSE "LOW"

CalculateRiskLevel(findings) ==
    LET critical == CountSeverity(findings, "critical")
        high == CountSeverity(findings, "high")
        medium == CountSeverity(findings, "medium")
    IN IF critical > 0 THEN "CRITICAL"
       ELSE IF high >= 2 THEN "HIGH"
       ELSE IF high = 1 \/ medium >= 3 THEN "MEDIUM"
       ELSE "LOW"

\* ------------------------------------------- analyzers and their tasks
\* The results an analyzer can return for file f. analyze_with_mythril
\* returns [] on every path; the heuristic scan and the AI analyzer report
\* the same construct two lines apart (one bucket), the scan a second one.
HeurFinding(f) == Finding(f, 41, "reentrancy", HEURISTIC, "critical")
HeurSecond(f) == Finding(f, 7, "access_control", HEURISTIC, "medium")
AiFinding(f) == Finding(f, 43, "reentrancy", AI, "high")

ResultsOf(f, a) ==
    CASE a = "heuristic" -> {<<>>, <<HeurFinding(f)>>, <<HeurFinding(f), HeurSecond(f)>>}
      [] a = "mythril" -> {<<>>}
      [] a = "groq_ai" -> {<<>>, <<AiFinding(f)>>}

\* What future.result() does: returns the task's list or raises.
Raised == [ok |-> FALSE, result |-> <<>>]
Returned(r) == [ok |-> TRUE, result |-> r]
OutcomesOf(f, a) == {Raised} \cup {Returned(r) : r \in ResultsOf(f, a)}

\* AnalyzersUsed naming the AI analyzer whether or not a key is configured.
AnalyzersUsedAlwaysGroq(myth, groq) ==
    <<"heuristic">> \o (IF myth THEN <<"mythril">> ELSE <<>>) \o <<"groq_ai">>

\* analyzers_used = ["heuristic"] (+ "mythril") (+ "groq_ai")
AnalyzersUsed(myth, groq) ==
    <<"heuristic">> \o (IF myth THEN <<"mythril">> ELSE <<>>)
                    \o (IF groq THEN <<"groq_ai">> ELSE <<>>)

Range(s) == {s[i] : i \in 1..Len(s)}

\* The futures submitted for n files: one per file and available analyzer.
\* pool.submit(scan_file, ...) for every file; pool.submit(analyze_with_mythril,
\* ...) if is_mythril_available(); pool.submit(analyze_with_groq, ...) if
\* is_groq_available().
TasksOf(n, myth, groq) ==
    (1..n) \X ({"heuristic"} \cup (IF myth THEN {"mythril"} ELSE {})
                             \cup (IF groq THEN {"groq_ai"} ELSE {}))

\* LoopBody without the try/except: a task's exception leaves the loop.
LoopBodyNoTry(all, outcome) ==
    IF outcome.ok
    THEN [all |-> IF outcome.result # <<>> THEN all \o outcome.result ELSE all,
          raised |-> FALSE]
    ELSE [all |-> all, raised |-> TRUE]

\* LoopBody assigning the result instead of extending the list with it.
LoopBodyAssign(all, outcome) ==
    IF outcome.ok
    THEN [all |-> IF outcome.result # <<>> THEN outcome.result ELSE all,
          raised |-> FALSE]
    ELSE [all |-> all, raised |-> FALSE]

\* The body of the as_completed loop for one future:
\*   try: result = future.result(); if result: all_findings.extend(result)
\*   except Exception as e: logger.error(...)
\* gives the list afterwards and whether an exception leaves the loop.
LoopBody(all, outcome) ==
    IF outcome.ok
    THEN [all |-> IF outcome.result # <<>> THEN all \o outcome.result ELSE all,
          raised |-> FALSE]
    ELSE [all |-> all, raised |-> FALSE]

Collect(all, outcome) == LoopBody(all, outcome).all

\* The loop over the futures in the order they complete.
RECURSIVE CollectAll(_, _, _)
CollectAll(order, outcomes, all) ==
    IF order = <<>> THEN all
    ELSE CollectAll(Tail(order), outcomes, Collect(all, outcomes[Head(order)]))

\* All orders in which the tasks of set S can complete.
RECURSIVE Orders(_)
Orders(S) ==
    IF S = {} THEN {<<>>}
    ELSE UNION {{<<t>> \o o : o \in Orders(S \ {t})} : t \in S}

\* analyze_directory's return value (findings, sol_count, analyzers_used);
\* with no Solidity file it returns before any analyzer is looked up.
AnalysisResult(n, myth, groq, all) ==
    IF n = 0
    THEN [findings |-> <<>>, solidity_files |-> 0, analyzers_used |-> <<"heuristic">>]
    ELSE [findings |-> DeduplicateFindings(all), solidity_files |-> n,
          analyzers_used |-> AnalyzersUsed(myth, groq)]

\* ------------------------------------------------- core/pipeline.py
\* ReportSummary and AuditReport as run_audit_pipeline builds them.
\* BuildSummaryCountsFiles is BuildSummary with the file count as the total.
BuildSummaryCountsFiles(found) ==
    [total_findings |-> found.solidity_files,
     critical |-> CountSeverity(found.findings, "critical"),
     high |-> CountSeverity(found.findings, "high"),
     medium |-> CountSeverity(found.findings, "medium"),
     low |-> CountSeverity(found.findings, "low"),
     info |-> CountSeverity(found.findings, "info"),
     solidity_files |-> found.solidity_files,
     analyzers_used |-> found.analyzers_used]

\* BuildSummary with the high counter counting high and critical findings.
BuildSummaryHighAndAbove(found) ==
    [total_findings |-> Len(found.findings),
     critical |-> CountSeverity(found.findings, "critical"),
     high |-> CountSeverity(found.findings, "high")
              + CountSeverity(found.findings, "critical"),
     medium |-> CountSeverity(found.findings, "medium"),
     low |-> CountSeverity(found.findings, "low"),
     info |-> CountSeverity(found.findings, "info"),
     solidity_files |-> found.solidity_files,
     analyzers_used |-> found.analyzers_used]

BuildSummary(found) ==
    [total_findings |-> Len(found.findings),
     critical |-> CountSeverity(found.findings, "critical"),
     high |-> CountSeverity(found.findings, "high"),
     medium |-> CountSeverity(found.findings, "medium"),
     low |-> CountSeverity(found.findings, "low"),
     info |-> CountSeverity(found.findings, "info"),
     solidity_files |-> found.solidity_files,
     analyzers_used |-> found.analyzers_used]

BuildReport(found) ==
    [risk_level |-> CalculateRiskLevel(found.findings),
     summary |-> BuildSummary(found),
     findings |-> found.findings,
     signature |-> None,
     public_key |-> None]

\* report.model_dump(): a dict, here the sequence of its (key, value) pairs
\* in insertion order, which is the order of the fields in models/schemas.py;
\* the summary is a dict of its own.
DumpSummary(u) ==
    <<<<"total_findings", u.total_findings>>, <<"critical", u.critical>>,
      <<"high", u.high>>, <<"medium", u.medium>>, <<"low", u.low>>,
      <<"info", u.info>>, <<"solidity_files", u.solidity_files>>,
      <<"analyzers_used", u.analyzers_used>>>>

ModelDump(r) ==
    <<<<"risk_level", r.risk_level>>, <<"summary", DumpSummary(r.summary)>>,
      <<"findings", r.findings>>, <<"signature", r.signature>>,
      <<"public_key", r.public_key>>>>

\* The keys of these dicts in the order sort_keys=True puts them.
SortedKeys ==
    <<"analyzers_used", "critical", "findings", "high", "info", "low", "medium",
      "public_key", "risk_level", "signature", "solidity_files", "summary",
      "total_findings">>

\* The pairs of dict d whose key is the n-th of SortedKeys or a later one,
\* in the order of their keys (a dict has each key once).
RECURSIVE InKeyOrder(_, _)
InKeyOrder(d, n) ==
    IF n > Len(SortedKeys) THEN <<>>
    ELSE SelectSeq(d, LAMBDA e : e[1] = SortedKeys[n]) \o InKeyOrder(d, n + 1)

SortKeys(d) == InKeyOrder(d, 1)

\* Dict d with the dict nested under "summary" sorted by key.
RECURSIVE SortNested(_)
SortNested(d) ==
    IF d = <<>> THEN <<>>
    ELSE <<IF Head(d)[1] = "summary"
           THEN <<"summary", SortKeys(Head(d)[2])>>
           ELSE Head(d)>> \o SortNested(Tail(d))

\* Canonical writing the pairs in insertion order (sort_keys left out).
CanonicalInsertionOrder(d) == d

\* json.dumps(report_dict, sort_keys=True, default=str): the pairs of the
\* dict and of the dict nested in it, each sorted by key.
Canonical(d) == SortKeys(SortNested(d))

\* crypto/signing.py: sign_report. Ed25519 over the SHA-256 digest of the
\* canonical text: the private key and that text determine the signature,
\* and another key or another text gives another signature.
SignReport(key, d) == [key |-> key, digest |-> Canonical(d)]

\* The keypair of the process when get_signing_service made one only: the
\* first it generated.
ProcessKey == 1

\* report.signature = signer.sign_report(report.model_dump())
Signed(key, r) == [r EXCEPT !.signature = Some(SignReport(key, ModelDump(r)))]

\* report.public_key = signer.public_key_hex
WithPublicKey(key, r) == [r EXCEPT !.public_key = Some(key)]

Sealed(r) == WithPublicKey(ProcessKey, Signed(ProcessKey, r))

\* ------------------------------------------------- storage/store.py
NewRecord == [status |-> PENDING, report |-> None, error |-> None]

\* create: self._jobs[job_id] = JobRecord(...)
StoreCreate(js, j) ==
    [k \in DOMAIN js \cup {j} |-> IF k = j THEN NewRecord ELSE js[k]]

\* update_status: if job_id in self._jobs: self._jobs[job_id].status = status
SetStatus(js, j, s) ==
    IF j \in DOMAIN js THEN [js EXCEPT ![j].status = s] ELSE js

\* Python's truth value of an Optional[str]: None and "" are false.
Truthy(e) == e # None /\ e[1] # ""

\* update_status: if error: self._jobs[job_id].error = error
SetError(js, j, e) ==
    IF j \in DOMAIN js /\ Truthy(e) THEN [js EXCEPT ![j].error = e] ELSE js

\* get: self._jobs.get(job_id)
StoreGet(js, j) == IF j \in DOMAIN js THEN Some(js[j]) ELSE None

\* SetReport without the membership test: the assignment makes the entry.
SetReportCreates(js, j, r) ==
    [k \in DOMAIN js \cup {j} |->
        IF k = j THEN [status |-> PENDING, report |-> Some(r), error |-> None] ELSE js[k]]

\* save_report: if job_id in self._jobs: self._jobs[job_id].report = report
SetReport(js, j, r) ==
    IF j \in DOMAIN js THEN [js EXCEPT ![j].report = Some(r)] ELSE js

\* save_report: self._jobs[job_id].status = JobStatus.COMPLETED
SetCompleted(js, j) == SetStatus(js, j, COMPLETED)

\* ------------------------------------------------------------ state
VARIABLES
    jobs,          \* JobStore._jobs: job id -> JobRecord (status, report, error)
    disk,          \* JOBS_DIR/<job id>/: report.json and report.html
    lock,          \* JobStore._lock: 0 when free, else the job whose thread holds it
    pc,            \* per job id: where its request handler or pipeline worker stands
    queue,         \* the work queue of core/queue.py's executor
    exc,           \* per job: str(e) of the exception propagating in its pipeline, if any
    found,         \* per job: what analyze_directory returned
    report,        \* per job: run_audit_pipeline's local AuditReport
    mythril_ok,    \* is_mythril_available()
    groq_ok,       \* is_groq_available()
    sol_count,     \* analyze_directory in detail: number of Solidity files
    outcome,       \* analyze_directory in detail: task -> what its future gave
    all_findings,  \* analyze_directory in detail: the list the loop extends
    input,         \* a function on its own: the finding list (the dicts) passed in
    output,        \* a function on its own: what it returned, once called
    risk_level,    \* calculate_risk_level on its own: the level returned, once called
    analysis_workers, \* config.py: ANALYSIS_WORKERS
    running,       \* analyze_directory's pool: the tasks a worker thread is executing
    poll,          \* GET /audit/{job_id}: where the handler stands and what it has read
    response,      \* GET /audit/{job_id}: the AuditStatusResponse last returned
    cache,         \* lru_cache of get_signing_service: the SigningService it holds, if any
    signer,        \* per job: the SigningService get_signing_service gave its worker
    keys           \* Ed25519PrivateKey.generate(): the number of keypairs generated so far

vars == <<jobs, disk, lock, pc, queue, exc, found, report, mythril_ok, groq_ok,
          sol_count, outcome, all_findings, input, output, risk_level,
          analysis_workers, running, poll, response, cache, signer, keys>>

storeVars == <<jobs, disk, lock>>
configVars == <<mythril_ok, groq_ok, analysis_workers>>
batchVars == <<sol_count, outcome, all_findings, input, output, risk_level, running>>
pollVars == <<poll, response>>
signVars == <<cache, signer, keys>>
pipelineVars == <<pc, queue, exc, found, report>>

\* str(e) of the exceptions a stage can raise: MemoryError() has the empty
\* message, zipfile.BadZipFile a text.
Msgs == {"", "File is not a zip file"}

\* str(e) of an exception raised by an analyzer task.
TaskFailed == "task failed"

NoFiles == [json |-> None, html |-> None]

\* get_audit_status before its first step: nothing read yet.
PollIdle == [pc |-> "idle", html_url |-> None, status |-> None, report |-> None]

\* The process at start with ANALYSIS_WORKERS set to workers, before any of
\* the submissions ids of its run.
InitFor(ids, workers) ==
    /\ jobs = <<>>
    /\ disk = [j \in ids |-> NoFiles]
    /\ lock = 0
    /\ pc = [j \in ids |-> "none"]
    /\ queue = <<>>
    /\ exc = [j \in ids |-> None]
    /\ found = [j \in ids |-> None]
    /\ report = [j \in ids |-> None]
    /\ mythril_ok \in BOOLEAN
    /\ groq_ok \in BOOLEAN
    /\ sol_count = 0
    /\ outcome = <<>>
    /\ all_findings = <<>>
    /\ input = <<>>
    /\ output = None
    /\ risk_level = None
    /\ analysis_workers = workers
    /\ running = {}
    /\ poll = PollIdle
    /\ response = None
    /\ cache = None
    /\ signer = [j \in ids |-> None]
    /\ keys = 0

InitWith(workers) == InitFor(JobIds, workers)

\* ANALYSIS_WORKERS left at its default.
Init == InitWith(AnalysisWorkers)

\* ANALYSIS_WORKERS set in the environment or left at its default.
WorkerSettings == {1, 2, AnalysisWorkers}
InitPool == \E workers \in WorkerSettings : InitWith(workers)

\* The start of a deployment with neither Mythril nor a Groq key.
InitNoAnalyzers == Init /\ ~mythril_ok /\ ~groq_ok

\* Positions at which a pool worker is busy with the job.
WorkerPcs ==
    {"run", "run_status", "run_error", "extract", "analyze", "collect", "build",
     "sign", "sign_new", "sign_report", "sign_key", "save", "save_report", "save_status", "save_json", "render",
     "save_html", "except", "except_status", "except_error", "reraise",
     "reraise_status", "reraise_error", "return"}

Running == {j \in DOMAIN pc : pc[j] \in WorkerPcs}

Goto(j, to) == pc' = [pc EXCEPT ![j] = to]

\* ---------------------------------------------- api/routes.py: POST /audit
\* job_id = uuid.uuid4().hex: an id not handed out before (the lowest such,
\* ids being interchangeable). The handler runs on the event loop, so no
\* second submission starts between its create and its enqueue_job.
CreateLock(j) ==
    /\ pc[j] = "none"
    /\ \A k \in DOMAIN pc : k < j => pc[k] # "none"
    /\ \A k \in DOMAIN pc : pc[k] \notin {"create", "created"}
    /\ lock = 0
    /\ lock' = j
    /\ Goto(j, "create")
    /\ UNCHANGED <<jobs, disk, queue, exc, found, report, configVars, signVars, pollVars, batchVars>>

\* CreateRecord leaving the store as it is: the job is enqueued unrecorded.
CreateRecordNoStore(j) ==
    /\ pc[j] = "create"
    /\ lock' = 0
    /\ Goto(j, "created")
    /\ UNCHANGED <<jobs, disk, queue, exc, found, report, configVars, signVars, pollVars, batchVars>>

\* store.create inside the lock.
CreateRecord(j) ==
    /\ pc[j] = "create"
    /\ jobs' = StoreCreate(jobs, j)
    /\ lock' = 0
    /\ Goto(j, "created")
    /\ UNCHANGED <<disk, queue, exc, found, report, configVars, signVars, pollVars, batchVars>>

\* core/queue.py: enqueue_job -> _executor.submit(_process_job, ...)
Enqueue(j) ==
    /\ pc[j] = "created"
    /\ queue' = Append(queue, j)
    /\ Goto(j, "queued")
    /\ UNCHANGED <<storeVars, exc, found, report, configVars, signVars, pollVars, batchVars>>

\* Dequeue for a pool that starts a thread for every work item.
DequeueNoCap(j) ==
    /\ pc[j] = "queued"
    /\ queue # <<>> /\ Head(queue) = j
    /\ queue' = Tail(queue)
    /\ Goto(j, "run")
    /\ UNCHANGED <<storeVars, exc, found, report, configVars, signVars, pollVars, batchVars>>

\* A free worker of the pool takes the oldest work item and enters
\* _process_job -> run_audit_pipeline.
Dequeue(j) ==
    /\ pc[j] = "queued"
    /\ queue # <<>> /\ Head(queue) = j
    /\ Cardinality(Running) < PoolWorkers
    /\ queue' = Tail(queue)
    /\ Goto(j, "run")
    /\ UNCHANGED <<storeVars, exc, found, report, configVars, signVars, pollVars, batchVars>>

\* ------------------------------- storage/store.py: update_status, in steps
\* UsLock entering the block without waiting for the lock to be free.
UsLockNoWait(j, at, to) ==
    /\ pc[j] = at
    /\ lock' = j
    /\ Goto(j, to)
    /\ UNCHANGED <<jobs, disk, queue, exc, found, report, configVars, signVars, pollVars, batchVars>>

\* with self._lock:
UsLock(j, at, to) ==
    /\ pc[j] = at
    /\ lock = 0
    /\ lock' = j
    /\ Goto(j, to)
    /\ UNCHANGED <<jobs, disk, queue, exc, found, report, configVars, signVars, pollVars, batchVars>>

\* UsStatus leaving the status as it is.
UsStatusSkipped(j, at, to, s) ==
    /\ pc[j] = at
    /\ Goto(j, to)
    /\ UNCHANGED <<jobs, disk, lock, queue, exc, found, report, configVars, signVars, pollVars,
                   batchVars>>

\* self._jobs[job_id].status = status
UsStatus(j, at, to, s) ==
    /\ pc[j] = at
    /\ jobs' = SetStatus(jobs, j, s)
    /\ Goto(j, to)
    /\ UNCHANGED <<disk, lock, queue, exc, found, report, configVars, signVars, pollVars, batchVars>>

\* UsError returning without releasing the lock.
UsErrorKeepsLock(j, at, to, e) ==
    /\ pc[j] = at
    /\ jobs' = SetError(jobs, j, e)
    /\ Goto(j, to)
    /\ UNCHANGED <<disk, lock, queue, exc, found, report, configVars, signVars, pollVars, batchVars>>

\* if error: self._jobs[job_id].error = error; the lock is released.
UsError(j, at, to, e) ==
    /\ pc[j] = at
    /\ jobs' = SetError(jobs, j, e)
    /\ lock' = 0
    /\ Goto(j, to)
    /\ UNCHANGED <<disk, queue, exc, found, report, configVars, signVars, pollVars, batchVars>>

\* str(e) of the exception propagating in job j's pipeline.
ExcStr(j) == exc[j]

\* ------------------------------------ core/pipeline.py: run_audit_pipeline
\* store.update_status(job_id, JobStatus.PROCESSING)
RunLock(j) == UsLock(j, "run", "run_status")
RunStatus(j) == UsStatus(j, "run_status", "run_error", PROCESSING)
RunError(j) == UsError(j, "run_error", "extract", None)

\* A stage raises: control goes to the except clause with the exception.
Raise(j, stage) ==
    /\ pc[j] = stage
    /\ \E m \in Msgs : exc' = [exc EXCEPT ![j] = Some(m)]
    /\ Goto(j, "except")

\* mkdtemp, write_bytes, ZipFile(...).extractall
Extract(j) ==
    /\ pc[j] = "extract"
    /\ Goto(j, "analyze")
    /\ UNCHANGED <<storeVars, queue, exc, found, report, configVars, signVars, pollVars, batchVars>>

ExtractRaises(j) ==
    /\ Raise(j, "extract")
    /\ UNCHANGED <<storeVars, queue, found, report, configVars, signVars, pollVars, batchVars>>

\* analyze_directory(extract_dir) as one step of the pipeline: some number
\* of Solidity files, some tasks that return findings, in some order of
\* completion. The other tasks raise or return []: the loop body leaves the
\* list as it is for them, wherever they fall in that order.
Analyze(j) ==
    /\ pc[j] = "analyze"
    /\ \E n \in 0..MaxFiles :
         \E S \in SUBSET TasksOf(n, mythril_ok, groq_ok) :
           \E outs \in [S -> UNION {OutcomesOf(t[1], t[2]) : t \in S}] :
              /\ \A t \in S : /\ outs[t] \in OutcomesOf(t[1], t[2])
                              /\ outs[t].ok
                              /\ outs[t].result # <<>>
              /\ \E order \in Orders(S) :
                   found' = [found EXCEPT ![j] =
                       Some(AnalysisResult(n, mythril_ok, groq_ok,
                                           CollectAll(order, outs, <<>>)))]
    /\ Goto(j, "build")
    /\ UNCHANGED <<storeVars, queue, exc, report, configVars, signVars, pollVars, batchVars>>

\* analyze_directory itself raises (the directory walk, the consolidation).
AnalyzeRaises(j) ==
    /\ Raise(j, "analyze")
    /\ UNCHANGED <<storeVars, queue, found, report, configVars, signVars, pollVars, batchVars>>

\* calculate_risk_level, ReportSummary(...), AuditReport(...); the tuple
\* analyze_directory returned is not read again.
Build(j) ==
    /\ pc[j] = "build"
    /\ report' = [report EXCEPT ![j] = Some(BuildReport(found[j][1]))]
    /\ found' = [found EXCEPT ![j] = None]
    /\ Goto(j, "sign")
    /\ UNCHANGED <<storeVars, queue, exc, configVars, signVars, pollVars, batchVars>>

BuildRaises(j) ==
    /\ Raise(j, "build")
    /\ UNCHANGED <<storeVars, queue, found, report, configVars, signVars, pollVars, batchVars>>

\* signer = get_signing_service(); signer.sign_report(report.model_dump());
\* report.public_key = ...: as one step, with the keypair the one of the process.
Sign(j) ==
    /\ pc[j] = "sign"
    /\ Goto(j, "save")
    /\ report' = [report EXCEPT ![j] = Some(Sealed(report[j][1]))]
    /\ UNCHANGED <<storeVars, queue, exc, found, configVars, signVars, pollVars, batchVars>>

SignRaises(j) ==
    /\ Raise(j, "sign")
    /\ UNCHANGED <<storeVars, queue, found, report, configVars, signVars, pollVars, batchVars>>

\* ------------------------------------ the signing of a report, in steps
\* get_signing_service() finds the SigningService in the lru_cache.
SignCached(j) ==
    /\ pc[j] = "sign"
    /\ cache # None
    /\ signer' = [signer EXCEPT ![j] = cache]
    /\ Goto(j, "sign_report")
    /\ UNCHANGED <<storeVars, queue, exc, found, report, configVars, pollVars, batchVars,
                   cache, keys>>

\* get_signing_service() finds the lru_cache empty: the wrapper goes on to
\* call SigningService(), holding no lock while it does.
SignMiss(j) ==
    /\ pc[j] = "sign"
    /\ cache = None
    /\ Goto(j, "sign_new")
    /\ UNCHANGED <<storeVars, queue, exc, found, report, configVars, pollVars, batchVars,
                   signVars>>

\* SigningService() generates a keypair and returns to the wrapper, which
\* stores the result unless another call has stored one meanwhile, and
\* returns the result it computed in either case.
SignNew(j) ==
    /\ pc[j] = "sign_new"
    /\ keys' = keys + 1
    /\ signer' = [signer EXCEPT ![j] = Some(keys + 1)]
    /\ cache' = IF cache = None THEN Some(keys + 1) ELSE cache
    /\ Goto(j, "sign_report")
    /\ UNCHANGED <<storeVars, queue, exc, found, report, configVars, pollVars, batchVars>>

\* report.signature = signer.sign_report(report.model_dump())
SignSignature(j) ==
    /\ pc[j] = "sign_report"
    /\ Goto(j, "sign_key")
    /\ report' = [report EXCEPT ![j] = Some(Signed(signer[j][1], report[j][1]))]
    /\ UNCHANGED <<storeVars, queue, exc, found, configVars, pollVars, batchVars, signVars>>

\* report.public_key = signer.public_key_hex
SignPublicKey(j) ==
    /\ pc[j] = "sign_key"
    /\ report' = [report EXCEPT ![j] = Some(WithPublicKey(signer[j][1], report[j][1]))]
    /\ Goto(j, "save")
    /\ UNCHANGED <<storeVars, queue, exc, found, configVars, pollVars, batchVars, signVars>>

SignInSteps(j) ==
    \/ SignCached(j) \/ SignMiss(j) \/ SignNew(j)
    \/ SignSignature(j) \/ SignPublicKey(j) \/ SignRaises(j)

\* ----------------------------------- storage/store.py: save_report, in steps
\* save_report entering its body without taking the lock.
SaveLockMissing(j) ==
    /\ pc[j] = "save"
    /\ Goto(j, "save_report")
    /\ UNCHANGED <<storeVars, queue, exc, found, report, configVars, signVars, pollVars, batchVars>>

\* with self._lock:
SaveLock(j) == UsLock(j, "save", "save_report")

\* self._jobs[job_id].report = report
SaveReportField(j) ==
    /\ pc[j] = "save_report"
    /\ jobs' = SetReport(jobs, j, report[j][1])
    /\ Goto(j, "save_status")
    /\ UNCHANGED <<disk, lock, queue, exc, found, report, configVars, signVars, pollVars, batchVars>>

\* self._jobs[job_id].status = JobStatus.COMPLETED; the lock is released.
SaveStatusField(j) ==
    /\ pc[j] = "save_status"
    /\ jobs' = SetCompleted(jobs, j)
    /\ lock' = 0
    /\ Goto(j, "save_json")
    /\ UNCHANGED <<disk, queue, exc, found, report, configVars, signVars, pollVars, batchVars>>

\* job_dir.mkdir; json_path.write_text(report.model_dump_json(indent=2));
\* save_report returns.
SaveJson(j) ==
    /\ pc[j] = "save_json"
    /\ disk' = [disk EXCEPT ![j].json = Some(report[j][1])]
    /\ Goto(j, "render")
    /\ UNCHANGED <<jobs, lock, queue, exc, found, report, configVars, signVars, pollVars, batchVars>>

\* mkdir or model_dump_json raises: no file is written.
SaveJsonRaises(j) ==
    /\ Raise(j, "save_json")
    /\ disk' = disk
    /\ UNCHANGED <<jobs, lock, queue, found, report, configVars, signVars, pollVars, batchVars>>

\* html = generate_html_report(report)
Render(j) ==
    /\ pc[j] = "render"
    /\ Goto(j, "save_html")
    /\ UNCHANGED <<storeVars, queue, exc, found, report, configVars, signVars, pollVars, batchVars>>

RenderRaises(j) ==
    /\ Raise(j, "render")
    /\ UNCHANGED <<storeVars, queue, found, report, configVars, signVars, pollVars, batchVars>>

\* store.save_html_report(job_id, html); return report; the finally clause
\* removes the temporary directory and _process_job returns: the worker's
\* locals are gone.
SaveHtml(j) ==
    /\ pc[j] = "save_html"
    /\ disk' = [disk EXCEPT ![j].html = Some(report[j][1])]
    /\ report' = [report EXCEPT ![j] = None]
    /\ Goto(j, "done")
    /\ UNCHANGED <<jobs, lock, queue, exc, found, configVars, signVars, pollVars, batchVars>>

SaveHtmlRaises(j) ==
    /\ Raise(j, "save_html")
    /\ disk' = disk
    /\ UNCHANGED <<jobs, lock, queue, found, report, configVars, signVars, pollVars, batchVars>>

\* except Exception as e: store.update_status(job_id, FAILED, str(e)); raise
ExceptLock(j) == UsLock(j, "except", "except_status")
ExceptStatus(j) == UsStatus(j, "except_status", "except_error", FAILED)
ExceptError(j) == UsError(j, "except_error", "reraise", ExcStr(j))

\* core/queue.py: _process_job's except: store.update_status(job_id, FAILED, str(e))
ReraiseLock(j) == UsLock(j, "reraise", "reraise_status")
ReraiseStatus(j) == UsStatus(j, "reraise_status", "reraise_error", FAILED)
\* ReraiseError storing a text of its own instead of str(e).
ReraiseErrorOwnText(j) == UsError(j, "reraise_error", "return", Some("Job failed"))

ReraiseError(j) == UsError(j, "reraise_error", "return", ExcStr(j))

\* Return with the worker thread not given back to the pool.
ReturnKeepsWorker(j) ==
    /\ pc[j] = "return"
    /\ exc' = [exc EXCEPT ![j] = None]
    /\ found' = [found EXCEPT ![j] = None]
    /\ report' = [report EXCEPT ![j] = None]
    /\ pc' = pc
    /\ UNCHANGED <<storeVars, queue, configVars, signVars, pollVars, batchVars>>

\* _process_job returns after the failure: the worker's locals are gone.
Return(j) ==
    /\ pc[j] = "return"
    /\ exc' = [exc EXCEPT ![j] = None]
    /\ found' = [found EXCEPT ![j] = None]
    /\ report' = [report EXCEPT ![j] = None]
    /\ Goto(j, "end")
    /\ UNCHANGED <<storeVars, queue, configVars, signVars, pollVars, batchVars>>

\* ------------------------------ analysis/engine.py: analyze_directory, in steps
\* The directory walk finds sol_count Solidity files; with none the function
\* returns at once, else it submits one future per file and analyzer.
ScanFiles(j) ==
    /\ pc[j] = "analyze"
    /\ \E n \in 0..MaxFiles :
         /\ sol_count' = n
         /\ outcome' = [t \in TasksOf(n, mythril_ok, groq_ok) |-> None]
         /\ all_findings' = <<>>
         /\ UNCHANGED <<input, output, risk_level, running>>
         /\ IF n = 0
            THEN /\ found' = [found EXCEPT ![j] =
                         Some(AnalysisResult(0, mythril_ok, groq_ok, <<>>))]
                 /\ Goto(j, "build")
            ELSE /\ found' = found
                 /\ Goto(j, "collect")
    /\ UNCHANGED <<storeVars, queue, exc, report, configVars, signVars, pollVars>>

\* The future of task t is done, with a result or an exception, and the
\* as_completed loop runs its body on it.
TaskYield(j, t) ==
    /\ pc[j] = "collect"
    /\ outcome[t] = None
    /\ \E o \in OutcomesOf(t[1], t[2]) :
         LET body == LoopBody(all_findings, o)
         IN /\ outcome' = [outcome EXCEPT ![t] = Some(o)]
            /\ all_findings' = body.all
            /\ IF body.raised
               THEN /\ exc' = [exc EXCEPT ![j] = Some(TaskFailed)]
                    /\ Goto(j, "except")
               ELSE /\ exc' = exc
                    /\ pc' = pc
    /\ UNCHANGED <<storeVars, queue, found, report, configVars, signVars, pollVars, sol_count, input, output,
                   risk_level>>

\* as_completed yields the future of task t, which returned or raised, and
\* the loop body runs on it; which worker ran the task is left out.
TaskDone(j, t) ==
    /\ TaskYield(j, t)
    /\ running' = running

\* Consolidate leaving the loop while futures are still pending.
ConsolidateNoWait(j) ==
    /\ pc[j] = "collect"
    /\ found' = [found EXCEPT ![j] =
           Some(AnalysisResult(sol_count, mythril_ok, groq_ok, all_findings))]
    /\ Goto(j, "build")
    /\ UNCHANGED <<storeVars, queue, exc, report, configVars, signVars, pollVars, batchVars>>

\* Every future has been yielded: the pool is shut down, the list is
\* deduplicated and analyze_directory returns.
Consolidate(j) ==
    /\ pc[j] = "collect"
    /\ \A t \in DOMAIN outcome : outcome[t] # None
    /\ found' = [found EXCEPT ![j] =
           Some(AnalysisResult(sol_count, mythril_ok, groq_ok, all_findings))]
    /\ Goto(j, "build")
    /\ UNCHANGED <<storeVars, queue, exc, report, configVars, signVars, pollVars, batchVars>>

\* --------------------- analyze_directory's ThreadPoolExecutor, task by task
\* The place of task t in the order of the pool.submit calls: file by file,
\* heuristic scan, Mythril, Groq.
SubmitIndex(t) ==
    3 * (t[1] - 1) + (CASE t[2] = "heuristic" -> 1
                        [] t[2] = "mythril" -> 2
                        [] t[2] = "groq_ai" -> 3)

\* The tasks submitted and not yet taken by a worker.
Waiting == {t \in DOMAIN outcome : outcome[t] = None /\ t \notin running}

\* TaskStart for a pool that starts a thread per task.
TaskStartNoCap(j, t) ==
    /\ pc[j] = "collect"
    /\ t \in Waiting
    /\ running' = running \cup {t}
    /\ UNCHANGED <<storeVars, pipelineVars, configVars, signVars, pollVars, sol_count, outcome,
                   all_findings, input, output, risk_level>>

\* ThreadPoolExecutor(max_workers=ANALYSIS_WORKERS): a worker thread, of
\* which there are at most max_workers, takes the oldest waiting task.
TaskStart(j, t) ==
    /\ pc[j] = "collect"
    /\ t \in Waiting
    /\ \A u \in Waiting : SubmitIndex(t) <= SubmitIndex(u)
    /\ Cardinality(running) < analysis_workers
    /\ running' = running \cup {t}
    /\ UNCHANGED <<storeVars, pipelineVars, configVars, signVars, pollVars, sol_count, outcome,
                   all_findings, input, output, risk_level>>

\* Task t, running on a worker, returns or raises: the worker is free and
\* the loop body runs on the task's future.
TaskEnd(j, t) ==
    /\ t \in running
    /\ TaskYield(j, t)
    /\ running' = running \ {t}

AnalyzeInPool(j) ==
    \/ ScanFiles(j)
    \/ \E t \in DOMAIN outcome : TaskStart(j, t) \/ TaskEnd(j, t)
    \/ Consolidate(j)
    \/ AnalyzeRaises(j)

AnalyzeInSteps(j) ==
    \/ ScanFiles(j)
    \/ \E t \in DOMAIN outcome : TaskDone(j, t)
    \/ Consolidate(j)
    \/ AnalyzeRaises(j)

Submission(j) == CreateLock(j) \/ CreateRecord(j) \/ Enqueue(j) \/ Dequeue(j)

\* run_audit_pipeline but for the analysis and the signing.
Stages(j) ==
    \/ RunLock(j) \/ RunStatus(j) \/ RunError(j)
    \/ Extract(j) \/ ExtractRaises(j)
    \/ Build(j) \/ BuildRaises(j)
    \/ SaveLock(j) \/ SaveReportField(j) \/ SaveStatusField(j)
    \/ SaveJson(j) \/ SaveJsonRaises(j)
    \/ Render(j) \/ RenderRaises(j)
    \/ SaveHtml(j) \/ SaveHtmlRaises(j)
    \/ ExceptLock(j) \/ ExceptStatus(j) \/ ExceptError(j)
    \/ ReraiseLock(j) \/ ReraiseStatus(j) \/ ReraiseError(j) \/ Return(j)

Pipeline(j) == Stages(j) \/ SignRaises(j) \/ Sign(j)

Next == \E j \in JobIds : Submission(j) \/ Pipeline(j) \/ Analyze(j) \/ AnalyzeRaises(j)

Spec == Init /\ [][Next]_vars

\* The steps of job j that a thread takes without waiting for input: the
\* request handler past its first step, the pool handing the job to a free
\* worker, and the worker running _process_job.
JobSteps(j) ==
    \/ CreateRecord(j) \/ Enqueue(j) \/ Dequeue(j)
    \/ Pipeline(j) \/ Analyze(j) \/ AnalyzeRaises(j)

\* Every thread that can take a step eventually takes one; every stage and
\* every analyzer task returns or raises (each is one step).
Fairness == \A j \in JobIds : WF_vars(JobSteps(j))

SpecFair == Spec /\ Fairness

\* More submissions than pool workers. The archives of this run hold no
\* Solidity file and the exceptions raised carry no message: what is in a
\* report or an error text has no part in how the pool schedules.
PlainInputs ==
    \A k \in DOMAIN pc :
        /\ exc[k] # Some("File is not a zip file")
        /\ found[k] # None => found[k][1].solidity_files = 0

NextQueue ==
    /\ \E j \in QueueJobIds :
           Submission(j) \/ Pipeline(j) \/ Analyze(j) \/ AnalyzeRaises(j)
    /\ PlainInputs'

InitQueue == InitFor(QueueJobIds, AnalysisWorkers) /\ ~mythril_ok /\ ~groq_ok

SpecQueue == InitQueue /\ [][NextQueue]_vars

\* SpecQueue with every thread that can take a step eventually taking one.
QueueFairness == \A j \in QueueJobIds : WF_vars(JobSteps(j) /\ PlainInputs')

SpecQueueFair == SpecQueue /\ QueueFairness

\* ------------------------------------------- sign_report on its own
\* Report dicts to sign: three contents, each in every insertion order of its
\* keys and of the keys of its summary.
SignFindings == {<<>>, <<HeurSecond(1)>>, <<HeurFinding(1)>>}

SignDicts ==
    UNION {UNION {Orders({<<"findings", f>>,
                          <<"risk_level", CalculateRiskLevel(f)>>,
                          <<"summary", u>>}) :
                     u \in Orders({<<"total_findings", Len(f)>>,
                                   <<"medium", CountSeverity(f, "medium")>>})} :
              f \in SignFindings}

\* signer = get_signing_service(); signer.sign_report(d), by one caller: the
\* process generates its keypair at the first call. The harness keeps the
\* last two calls: the dict, the signature and the process that made it.
SignCall(d) ==
    LET key == IF cache = None THEN keys + 1 ELSE cache[1]
        made == [signature |-> SignReport(key, d), process |-> key]
        last == IF output = None THEN <<>> ELSE output[1]
    IN /\ cache = None => keys < MaxKeys
       /\ cache' = Some(key)
       /\ keys' = IF cache = None THEN keys + 1 ELSE keys
       /\ input' = IF Len(input) < 2 THEN Append(input, d) ELSE <<input[2], d>>
       /\ output' = Some(IF Len(last) < 2 THEN Append(last, made) ELSE <<last[2], made>>)
       /\ UNCHANGED <<storeVars, pipelineVars, configVars, pollVars, sol_count, outcome,
                      all_findings, risk_level, running, signer>>

\* The process ends and a new one starts: its lru_cache is empty.
Restart ==
    /\ cache # None
    /\ keys < MaxKeys
    /\ cache' = None
    /\ UNCHANGED <<storeVars, pipelineVars, configVars, pollVars, batchVars, signer, keys>>

NextSign == Restart \/ \E d \in SignDicts : SignCall(d)

SpecSign == InitNoAnalyzers /\ [][NextSign]_vars

\* The jobs of the process with the signing in steps, so that the workers'
\* calls of get_signing_service interleave; inputs as in NextQueue.
NextSeal ==
    /\ \E j \in JobIds :
           Submission(j) \/ Stages(j) \/ SignInSteps(j) \/ Analyze(j) \/ AnalyzeRaises(j)
    /\ PlainInputs'

SpecSeal == InitNoAnalyzers /\ [][NextSeal]_vars

\* One job through the pipeline, with analyze_directory in steps.
NextAnalyze == Submission(1) \/ Pipeline(1) \/ AnalyzeInSteps(1)

SpecAnalyze == Init /\ [][NextAnalyze]_vars

\* One job through the pipeline, with the analysis pool task by task; an idle
\* worker takes a waiting task and a running task ends.
NextPool == Submission(1) \/ Pipeline(1) \/ AnalyzeInPool(1)

\* An idle worker thread takes a waiting task, and a task that runs returns
\* or raises.
PoolFairness ==
    /\ WF_vars(\E t \in DOMAIN outcome : TaskStart(1, t))
    /\ WF_vars(\E t \in DOMAIN outcome : TaskEnd(1, t))

SpecPool == InitPool /\ [][NextPool]_vars /\ PoolFairness

\* --------------------------------- api/routes.py: GET /audit/{job_id}
\* f"/report/{job_id}"
ReportUrl(j) == <<"/report", j>>

\* record = store.get(job_id): the lookup runs inside the store's lock and
\* hands out the JobRecord object itself; an unknown id is answered 404.
PollGet(j) ==
    /\ poll.pc = "idle"
    /\ lock = 0
    /\ response' = None
    /\ poll' = IF j \in DOMAIN jobs THEN [PollIdle EXCEPT !.pc = "url"] ELSE PollIdle
    /\ UNCHANGED <<storeVars, pipelineVars, configVars, signVars, batchVars>>

\* html_url = f"/report/{job_id}" if record.status == COMPLETED else None
PollUrl(j) ==
    /\ poll.pc = "url"
    /\ poll' = [poll EXCEPT !.pc = "status",
                            !.html_url = IF jobs[j].status = COMPLETED
                                         THEN Some(ReportUrl(j)) ELSE None]
    /\ UNCHANGED <<storeVars, pipelineVars, configVars, signVars, batchVars, response>>

\* AuditStatusResponse(..., status=record.status,
PollStatus(j) ==
    /\ poll.pc = "status"
    /\ poll' = [poll EXCEPT !.pc = "report", !.status = Some(jobs[j].status)]
    /\ UNCHANGED <<storeVars, pipelineVars, configVars, signVars, batchVars, response>>

\* report=record.report,
PollReport(j) ==
    /\ poll.pc = "report"
    /\ poll' = [poll EXCEPT !.pc = "error", !.report = jobs[j].report]
    /\ UNCHANGED <<storeVars, pipelineVars, configVars, signVars, batchVars, response>>

\* error=record.error, html_report_url=html_url): the response is returned.
PollError(j) ==
    /\ poll.pc = "error"
    /\ response' = Some([status |-> poll.status[1],
                         report |-> poll.report,
                         error |-> jobs[j].error,
                         html_report_url |-> poll.html_url])
    /\ poll' = PollIdle
    /\ UNCHANGED <<storeVars, pipelineVars, configVars, signVars, batchVars>>

GetAuditStatus(j) ==
    PollGet(j) \/ PollUrl(j) \/ PollStatus(j) \/ PollReport(j) \/ PollError(j)

\* ------------------------------------ api/routes.py: GET /report/{job_id}
\* storage/store.py, get_html_report_path: path if path.exists() else None
GetHtmlReportPath(dk, j) == IF dk[j].html # None THEN Some(j) ELSE None

\* get_html_report: 404 without a path, else the text of the file.
GetHtmlReport(dk, j) ==
    IF GetHtmlReportPath(dk, j) = None
    THEN [status_code |-> "404", content |-> None]
    ELSE [status_code |-> "200", content |-> dk[j].html]

\* One job through the pipeline while its status is polled.
NextPoll ==
    \/ Submission(1) \/ Pipeline(1) \/ Analyze(1) \/ AnalyzeRaises(1)
    \/ GetAuditStatus(1)

SpecPoll == InitNoAnalyzers /\ [][NextPoll]_vars

\* ------------------------------------ the JobStore under arbitrary callers
\* The public operations of storage/store.py called one after the other
\* with any arguments, each call run to its end.
StatusArgs == JobStatus
ErrorArgs == {None} \cup {Some(m) : m \in Msgs}
ReportArgs == {Sealed(BuildReport(AnalysisResult(0, FALSE, FALSE, <<>>)))}

CallCreate(j) ==
    /\ jobs' = StoreCreate(jobs, j)
    /\ UNCHANGED <<disk, lock, pipelineVars, configVars, signVars, pollVars, batchVars>>

CallUpdateStatus(j, s, e) ==
    /\ jobs' = SetError(SetStatus(jobs, j, s), j, e)
    /\ UNCHANGED <<disk, lock, pipelineVars, configVars, signVars, pollVars, batchVars>>

CallSaveReport(j, r) ==
    /\ jobs' = SetCompleted(SetReport(jobs, j, r), j)
    /\ disk' = [disk EXCEPT ![j].json = Some(r)]
    /\ UNCHANGED <<lock, pipelineVars, configVars, signVars, pollVars, batchVars>>

CallSaveHtmlReport(j, r) ==
    /\ disk' = [disk EXCEPT ![j].html = Some(r)]
    /\ UNCHANGED <<jobs, lock, pipelineVars, configVars, signVars, pollVars, batchVars>>

NextStore ==
    \E j \in JobIds :
        \/ CallCreate(j)
        \/ \E s \in StatusArgs, e \in ErrorArgs : CallUpdateStatus(j, s, e)
        \/ \E r \in ReportArgs : CallSaveReport(j, r)
        \/ \E r \in ReportArgs : CallSaveHtmlReport(j, r)

SpecStore == InitNoAnalyzers /\ [][NextStore]_vars

\* --------------------------------------- _deduplicate_findings on its own
\* The findings the lists are drawn from: two files, an unlocated finding and
\* the lines on either side of a bucket boundary, two categories, the three
\* sources; a finding is off the first key (file 1, bucket 0, reentrancy) in
\* at most one of file, bucket and category.
DedupFiles == {1, 2}
DedupLines == {NoLine, 4, 5}
DedupUniverse ==
    {x \in {Finding(f, l, c, s, "high") :
                f \in DedupFiles, l \in DedupLines, c \in FindingCategory,
                s \in FindingSource} :
        (IF x.file_path # 1 THEN 1 ELSE 0)
        + (IF x.line_number = 5 THEN 1 ELSE 0)
        + (IF x.category # "reentrancy" THEN 1 ELSE 0) <= 1}

AddFinding(f) ==
    /\ output = None
    /\ Len(input) < MaxLen
    /\ input' = Append(input, f)
    /\ UNCHANGED <<storeVars, pipelineVars, configVars, signVars, pollVars, sol_count, outcome,
                   all_findings, output, risk_level, running>>

Deduplicate ==
    /\ output = None
    /\ output' = Some(DeduplicateFindings(input))
    /\ UNCHANGED <<storeVars, pipelineVars, configVars, signVars, pollVars, sol_count, outcome,
                   all_findings, input, risk_level, running>>

\* The list returned is passed in again.
DeduplicateAgain ==
    /\ output # None
    /\ input' = output[1]
    /\ output' = Some(DeduplicateFindings(output[1]))
    /\ UNCHANGED <<storeVars, pipelineVars, configVars, signVars, pollVars, sol_count, outcome,
                   all_findings, risk_level, running>>

NextDedup ==
    \/ \E f \in DedupUniverse : AddFinding(f)
    \/ Deduplicate
    \/ DeduplicateAgain

SpecDedup == InitNoAnalyzers /\ [][NextDedup]_vars

\* ------------------------------- deduplication at the edges of a bucket
\* Findings of one file and category, without a line and on the lines at the
\* two ends of buckets 0 and 8 and at the start of bucket 9.
BucketLines == {NoLine, 1, 4, 40, 44, 45}
BucketUniverse ==
    {Finding(1, l, "reentrancy", s, "high") :
        l \in BucketLines, s \in {HEURISTIC, AI}}

NextBucket ==
    \/ \E f \in BucketUniverse : AddFinding(f)
    \/ Deduplicate

SpecBucket == InitNoAnalyzers /\ [][NextBucket]_vars

\* ------------------------- deduplication followed by the risk assessment
\* Findings of one file and category on two lines of different buckets, of
\* every source and of three severities.
SeverityLines == {41, 45}
SeveritySet == {"critical", "high", "low"}
SeverityUniverse ==
    {Finding(1, l, "reentrancy", s, sev) :
        l \in SeverityLines, s \in FindingSource, sev \in SeveritySet}

\* analyze_directory returns _deduplicate_findings(all_findings) and
\* run_audit_pipeline calls calculate_risk_level on the list returned.
DeduplicateAndAssess ==
    /\ output = None
    /\ output' = Some(DeduplicateFindings(input))
    /\ risk_level' = Some(CalculateRiskLevel(DeduplicateFindings(input)))
    /\ UNCHANGED <<storeVars, pipelineVars, configVars, signVars, pollVars, sol_count, outcome,
                   all_findings, input, running>>

NextSeverity ==
    \/ \E f \in SeverityUniverse : AddFinding(f)
    \/ DeduplicateAndAssess

SpecSeverity == InitNoAnalyzers /\ [][NextSeverity]_vars

\* ----------------------------------------- calculate_risk_level on its own
\* A finding of the given severity; calculate_risk_level reads nothing else.
RiskFinding(sev) == Finding(1, NoLine, "reentrancy", HEURISTIC, sev)

\* calculate_risk_level is called on the list as it stands.
Assess ==
    /\ risk_level = None
    /\ risk_level' = Some(CalculateRiskLevel(input))
    /\ UNCHANGED <<storeVars, pipelineVars, configVars, signVars, pollVars, sol_count, outcome,
                   all_findings, input, output, running>>

\* calculate_risk_level is called on the last list plus one finding.
AssessWith(sev) ==
    /\ risk_level # None
    /\ Len(input) < MaxRiskLen
    /\ input' = Append(input, RiskFinding(sev))
    /\ risk_level' = Some(CalculateRiskLevel(input'))
    /\ UNCHANGED <<storeVars, pipelineVars, configVars, signVars, pollVars, sol_count, outcome,
                   all_findings, output, running>>

NextRisk == Assess \/ \E sev \in Severity : AssessWith(sev)

SpecRisk == InitNoAnalyzers /\ [][NextRisk]_vars

\* ================================================================ claims
Known == DOMAIN jobs
Terminal == {COMPLETED, FAILED}

\* C1: completed and failed are absorbing: once a job's status is completed
\* or failed, no later step gives it a different status.
C1_TerminalAbsorbing ==
    [][\A j \in Known :
         jobs[j].status \in Terminal =>
             j \in DOMAIN jobs' /\ jobs'[j].status = jobs[j].status]_vars

\* C2: a job's status changes only along pending -> processing ->
\* {completed | failed}: never backwards, never to a terminal status from
\* anything but processing, never out of a terminal status.
StatusEdges ==
    {<<PENDING, PROCESSING>>, <<PROCESSING, COMPLETED>>, <<PROCESSING, FAILED>>}

C2_StatusOrder ==
    [][\A j \in Known :
         /\ j \in DOMAIN jobs'
         /\ jobs'[j].status # jobs[j].status =>
                <<jobs[j].status, jobs'[j].status>> \in StatusEdges]_vars

\* C3: create on a job id that already has a record fails and leaves the
\* record unchanged; create on a fresh id registers a pending record.
C3_CreateExistingFails ==
    [][\A j \in JobIds :
         CallCreate(j) =>
             IF j \in Known THEN jobs' = jobs
             ELSE DOMAIN jobs' = Known \cup {j} /\ jobs'[j] = NewRecord]_vars

\* C4: a job whose pipeline raised at any stage ends in failed with no report
\* persisted: none attached to its record, no report file on disk.
C4_NoReportOnFailure ==
    \A j \in Known :
        pc[j] \in {"reraise", "return", "end"} =>
            /\ jobs[j].status = FAILED
            /\ jobs[j].report = None
            /\ disk[j] = NoFiles

\* C5: a failed job (seen outside the store's critical section) has its error
\* set, and while the exception is still propagating the error is its str().
C5_FailedHasError ==
    \A j \in Known :
        jobs[j].status = FAILED /\ lock # j =>
            /\ jobs[j].error # None
            /\ exc[j] # None => jobs[j].error = exc[j]

\* C6: outside save_report's critical section no record is completed without
\* a report, and none has a report while still pending or processing.
C6_ReportIffCompleted ==
    \A j \in Known :
        lock # j =>
            /\ jobs[j].status = COMPLETED => jobs[j].report # None
            /\ jobs[j].report # None => jobs[j].status \notin {PENDING, PROCESSING}

\* C6 witness: save_report has completed one job while another job's thread
\* is inside a store operation.
C6_Witness ==
    \E j \in Known, k \in Known :
        /\ j # k
        /\ lock = k
        /\ jobs[j].status = COMPLETED
        /\ jobs[j].report # None

\* C7: when save_report returns (the pipeline stands before
\* generate_html_report), report.json and report.html are both on disk.
C7_SaveReportWritesBoth ==
    \A j \in JobIds :
        pc[j] = "render" => disk[j].json # None /\ disk[j].html # None

\* The tasks of the batch whose future has been yielded, and among them
\* those that returned.
DoneTasks == {t \in DOMAIN outcome : outcome[t] # None}
ReturnedTasks == {t \in DoneTasks : outcome[t][1].ok}
RaisedTasks == {t \in DoneTasks : ~outcome[t][1].ok}
AllTasksDone == DoneTasks = DOMAIN outcome

CountIn(s, f) == Cardinality({i \in 1..Len(s) : s[i] = f})

RECURSIVE CountInResults(_, _)
CountInResults(T, f) ==
    IF T = {} THEN 0
    ELSE LET t == CHOOSE x \in T : TRUE
         IN CountIn(outcome[t][1].result, f) + CountInResults(T \ {t}, f)

\* C8: a task that raised adds nothing and stops nothing: its exception never
\* reaches the pipeline's except clause, every finding of the tasks that
\* returned so far is in the list, and once all are in analyze_directory
\* returns the consolidated list.
C8_TaskFailureIsolated ==
    /\ \A j \in JobIds : exc[j] # Some(TaskFailed)
    /\ \A t \in ReturnedTasks :
         \A i \in 1..Len(outcome[t][1].result) :
             CountIn(all_findings, outcome[t][1].result[i]) >= 1
    /\ \A j \in JobIds :
         found[j] # None /\ sol_count > 0 =>
             /\ AllTasksDone
             /\ found[j][1].findings = DeduplicateFindings(all_findings)

\* C8 witness: a job completed with a finding in its report although one of
\* its tasks raised.
C8_Witness ==
    /\ RaisedTasks # {}
    /\ 1 \in Known
    /\ jobs[1].status = COMPLETED
    /\ pc[1] = "done"
    /\ jobs[1].report[1].findings # <<>>

\* C9: when every task is done, the raw list is the multiset union of the
\* result lists of the tasks that returned: each finding as often as the
\* results hold it, whatever the order of completion.
C9_RawIsUnionOfResults ==
    AllTasksDone =>
        \A f \in Range(all_findings) \cup
                 UNION {Range(outcome[t][1].result) : t \in ReturnedTasks} :
            CountIn(all_findings, f) = CountInResults(ReturnedTasks, f)

\* C9 witness: the list handed over holds the results of two tasks, the later
\* submitted of which completed first, while a third task raised.
C9_Witness ==
    /\ AllTasksDone
    /\ pc[1] = "build"
    /\ RaisedTasks # {}
    /\ \E f \in FileIds :
         /\ <<f, "heuristic">> \in ReturnedTasks
         /\ <<f, "groq_ai">> \in ReturnedTasks
         /\ all_findings = <<AiFinding(f), HeurFinding(f), HeurSecond(f)>>

\* The key the claim names: (file_path, floor((line_number or 0) / 5), category).
ClaimKey(f) ==
    <<f.file_path,
      (IF f.line_number = NoLine THEN 0 ELSE f.line_number) \div 5,
      f.category>>

\* C10: the output of _deduplicate_findings holds at most one finding per
\* (file_path, floor((line_number or 0) / 5), category) key.
C10_OneFindingPerKey ==
    output # None =>
        \A i, k \in 1..Len(output[1]) :
            i # k => ClaimKey(output[1][i]) # ClaimKey(output[1][k])

\* C10 witness: an input with two findings of one key and a third of another
\* has been deduplicated to two findings.
C10_Witness ==
    /\ output # None
    /\ Len(input) = 3
    /\ Len(output[1]) = 2
    /\ \E i, k \in 1..Len(input) : i # k /\ ClaimKey(input[i]) = ClaimKey(input[k])

\* The trust rank the claims name: mythril > ai > heuristic.
ClaimRank(src) ==
    CASE src = MYTHRIL -> 3
      [] src = AI -> 2
      [] src = HEURISTIC -> 1

\* The position at which finding f first stands in list s (0: nowhere).
FirstIndex(s, f) ==
    IF \E i \in 1..Len(s) : s[i] = f
    THEN CHOOSE i \in 1..Len(s) : s[i] = f /\ \A m \in 1..(i - 1) : s[m] # f
    ELSE 0

\* C11: of the input findings that share a key, the output holds exactly one,
\* a finding of the input whose source no other of them outranks, whatever
\* the order of the input list.
C11_HighestTrustKept ==
    output # None =>
        \A i \in 1..Len(input) :
            LET same == {k \in 1..Len(output[1]) :
                            ClaimKey(output[1][k]) = ClaimKey(input[i])}
            IN /\ Cardinality(same) = 1
               /\ \A k \in same :
                    /\ output[1][k] \in Range(input)
                    /\ ClaimRank(output[1][k].source) >= ClaimRank(input[i].source)

\* C11 witness: two findings of one key, the lower-trust one first in the
\* input; only the higher-trust one is in the output.
C11_Witness ==
    /\ output # None
    /\ Len(input) = 2
    /\ ClaimKey(input[1]) = ClaimKey(input[2])
    /\ input[1].line_number # input[2].line_number
    /\ ClaimRank(input[1].source) < ClaimRank(input[2].source)
    /\ output[1] = <<input[2]>>

\* C12: the output is in descending trust rank; findings of equal rank stand
\* in the order of their first appearance in the input; of the same-key
\* findings of the kept one's rank, the first in the input is the one kept.
C12_TrustOrderStable ==
    output # None =>
        LET out == output[1]
        IN /\ \A i, k \in 1..Len(out) :
                 i < k => ClaimRank(out[i].source) >= ClaimRank(out[k].source)
           /\ \A i, k \in 1..Len(out) :
                 i < k /\ ClaimRank(out[i].source) = ClaimRank(out[k].source) =>
                     FirstIndex(input, out[i]) < FirstIndex(input, out[k])
           /\ \A k \in 1..Len(out) : \A i \in 1..Len(input) :
                 /\ ClaimKey(input[i]) = ClaimKey(out[k])
                 /\ ClaimRank(input[i].source) = ClaimRank(out[k].source)
                 => FirstIndex(input, out[k]) <= i

\* C12 witness: a higher-trust finding last in the input is first in the
\* output, and of two same-key findings of equal rank the earlier is kept.
C12_Witness ==
    /\ output # None
    /\ Len(input) = 3
    /\ ClaimKey(input[1]) = ClaimKey(input[2])
    /\ input[1] # input[2]
    /\ input[1].source = input[2].source
    /\ ClaimKey(input[3]) # ClaimKey(input[1])
    /\ ClaimRank(input[3].source) > ClaimRank(input[1].source)
    /\ output[1] = <<input[3], input[1]>>

\* C13: deduplicating a list that _deduplicate_findings returned gives that
\* list again: same findings, same order.
C13_DedupIdempotent ==
    [][output # None /\ output' # None => output' = output]_vars

\* C13 witness: a list of several findings, shorter than the list it was
\* made from, has been passed in again and has come back.
C13_Witness ==
    /\ output # None
    /\ input = output[1]
    /\ Len(input) = 2
    /\ ClaimRank(input[1].source) = ClaimRank(input[2].source)

\* Bucket 0: no line number, or a line from 0 to 4.
InBucketZero(f) ==
    f.line_number = NoLine \/ (0 <= f.line_number /\ f.line_number < 5)

\* C14: an unlocated finding is in bucket 0: the output never holds it next
\* to another bucket-0 finding of its file and category, so unlocated
\* findings of one file and category collapse to one.
C14_UnlocatedInBucketZero ==
    output # None =>
        \A i, k \in 1..Len(output[1]) :
            /\ i # k
            /\ output[1][i].file_path = output[1][k].file_path
            /\ output[1][i].category = output[1][k].category
            /\ output[1][i].line_number = NoLine
            => ~InBucketZero(output[1][k])

\* C14 witness: three unlocated findings of one file and category went in,
\* one came out.
C14_Witness ==
    /\ output # None
    /\ Len(input) = 3
    /\ \A i \in 1..3 :
         /\ input[i].line_number = NoLine
         /\ input[i].file_path = input[1].file_path
         /\ input[i].category = input[1].category
    /\ input[1].source # input[2].source
    /\ Len(output[1]) = 1

\* The number of findings of severity sev in list s.
ClaimCount(s, sev) == Cardinality({i \in 1..Len(s) : s[i].severity = sev})

\* The decision list of the claim, first match wins.
ClaimRisk(s) ==
    IF ClaimCount(s, "critical") >= 1 THEN "CRITICAL"
    ELSE IF ClaimCount(s, "high") >= 2 THEN "HIGH"
    ELSE IF ClaimCount(s, "high") = 1 \/ ClaimCount(s, "medium") >= 3 THEN "MEDIUM"
    ELSE "LOW"

\* C15: calculate_risk_level is the decision list CRITICAL if a critical
\* finding, else HIGH if two or more high, else MEDIUM if exactly one high or
\* three or more medium, else LOW; low and info findings do not enter it.
C15_RiskDecisionList ==
    risk_level # None => risk_level[1] = ClaimRisk(input)

\* C15 witness: two high and three medium findings give HIGH, the earlier
\* rule.
C15_Witness ==
    /\ risk_level = Some("HIGH")
    /\ ClaimCount(input, "high") = 2
    /\ ClaimCount(input, "medium") = 3

\* LOW < MEDIUM < HIGH < CRITICAL
RiskOrder(level) ==
    CASE level = "LOW" -> 0
      [] level = "MEDIUM" -> 1
      [] level = "HIGH" -> 2
      [] level = "CRITICAL" -> 3

\* C16: the empty list assesses to LOW, and the list plus one critical
\* finding never assesses lower than the list did.
C16_RiskMonotone ==
    /\ [](risk_level # None /\ input = <<>> => risk_level = Some("LOW"))
    /\ [][/\ risk_level # None
          /\ risk_level' # None
          /\ input' = Append(input, RiskFinding("critical"))
          => RiskOrder(risk_level'[1]) >= RiskOrder(risk_level[1])]_vars

\* C16 witness: a critical finding was added to a list that already held
\* one.
C16_Witness ==
    /\ risk_level = Some("CRITICAL")
    /\ Len(input) = 3
    /\ input[1].severity = "critical"
    /\ input[2].severity = "high"
    /\ input[3].severity = "critical"

CriticalPcs ==
    {"create", "run_status", "run_error", "except_status", "except_error",
     "reraise_status", "reraise_error", "save_report", "save_status"}

InCritical == {j \in JobIds : pc[j] \in CriticalPcs}

\* C18: at most one thread is inside the critical section of a mutating
\* store operation, and it is the one holding the lock; so no two mutating
\* operations overlap, on one job id or on several.
C18_MutualExclusion ==
    /\ Cardinality(InCritical) <= 1
    /\ \A j \in JobIds : j \in InCritical <=> lock = j

\* C18 witness: one worker is inside save_report's block while the other
\* job's thread stands in front of a store operation.
C18_Witness ==
    \E j, k \in JobIds :
        /\ j # k
        /\ pc[j] = "save_report"
        /\ lock = j
        /\ pc[k] \in {"run", "save", "except", "reraise"}

\* C19: a response of the status poll carries a report exactly when its
\* status is completed, and an html_report_url exactly when its status is
\* completed: its fields describe the record at one instant.
C19_PollSnapshot ==
    response # None =>
        /\ response[1].report # None <=> response[1].status = COMPLETED
        /\ response[1].html_report_url # None <=> response[1].status = COMPLETED

\* C20: never more than ANALYSIS_WORKERS tasks of the batch are running; a
\* task waits only while no worker is free or an older task waits; and
\* every waiting task comes to run: a task leaves the waiting ones only by
\* being started, and in the end none waits.
C20_PoolBounded ==
    /\ [](Cardinality(running) <= analysis_workers)
    /\ [](Waiting # {} /\ pc[1] = "collect" =>
             Cardinality(running) = analysis_workers
             \/ \E t \in Waiting : ENABLED TaskStart(1, t))
    /\ [][\A t \in Waiting : t \in Waiting' \/ t \in running']_vars
    /\ (pc[1] = "collect") ~> (Waiting = {})

\* C20 witness: every worker is busy and a task waits.
C20_Witness ==
    /\ pc[1] = "collect"
    /\ Cardinality(running) = analysis_workers
    /\ Waiting # {}

\* C21: at most 2 jobs are in status processing at any moment; a pending job
\* whose pipeline has not started becomes processing only in a step before
\* which fewer than 2 pipelines were running, so a job submitted while 2 run
\* stays pending until one of them has ended; and 2 jobs can be processing
\* at once.
Processing == {j \in Known : jobs[j].status = PROCESSING}

C21_TwoPipelinesAtMost ==
    /\ [](Cardinality(Processing) <= PoolWorkers)
    /\ [](Cardinality(Running) <= PoolWorkers)
    /\ [][\A j \in Known :
            (pc[j] = "queued" /\ pc'[j] # "queued")
                => /\ Cardinality(Running) < PoolWorkers
                   /\ \A k \in Running' \ Running : k = j]_vars
    /\ [](\A j \in Known : pc[j] = "queued" => jobs[j].status = PENDING)
    /\ [](\A j \in Running : pc[j] \notin {"run", "run_status"}
                                   => jobs[j].status \in {PROCESSING} \cup Terminal)

\* Two jobs are processing and a third, submitted meanwhile, waits pending.
C21_Witness ==
    /\ Cardinality(Processing) = PoolWorkers
    /\ \E j \in Known : pc[j] = "queued" /\ jobs[j].status = PENDING

\* The summaries the job's pipeline has produced so far: the tuple
\* analyze_directory returned, the report being built and the stored one.
Summaries(j) ==
    (IF found[j] # None THEN {found[j][1].analyzers_used} ELSE {})
    \cup (IF report[j] # None THEN {report[j][1].summary.analyzers_used} ELSE {})
    \cup (IF j \in Known /\ jobs[j].report # None
          THEN {jobs[j].report[1].summary.analyzers_used} ELSE {})

\* C22: without a Groq key no task of the batch is a groq_ai task and no
\* summary of the job names groq_ai; the job still completes with what the
\* other analyzers found.
C22_NoKeyNoAiTask ==
    ~groq_ok =>
        /\ \A t \in DOMAIN outcome : t[2] # "groq_ai"
        /\ \A u \in Summaries(1) : "groq_ai" \notin Range(u)

\* Without a key, a job with a Solidity file has completed with findings.
C22_Witness ==
    /\ ~groq_ok
    /\ sol_count > 0
    /\ 1 \in Known
    /\ jobs[1].status = COMPLETED
    /\ jobs[1].report # None
    /\ jobs[1].report[1].findings # <<>>
    /\ disk[1].html # None

\* The analyzers that ran on at least one file of the batch.
Invoked == {t[2] : t \in {u \in DOMAIN outcome : outcome[u] # None}}

\* C23: analyzers_used names exactly the analyzers that ran in the job: a
\* name is listed if and only if that analyzer was invoked on at least one
\* file of the batch, the batch without a Solidity file included.
C23_UsedIffInvoked ==
    \A u \in Summaries(1) : Range(u) = Invoked

\* No analyzer task of the batch returned a finding (it returned [] or
\* raised); true of the batch without a Solidity file, which has no task.
NothingFound ==
    \A t \in DOMAIN outcome : outcome[t] # None => outcome[t][1].result = <<>>

\* The reports of job j: the pipeline's own and the stored one.
Reports(j) ==
    (IF report[j] # None THEN {report[j][1]} ELSE {})
    \cup (IF j \in Known /\ jobs[j].report # None THEN {jobs[j].report[1]} ELSE {})

\* C24: when the analyzers of a job produce no findings, the batch without a
\* Solidity file included, its report has risk level LOW, no findings and
\* summary.total_findings 0, and the job completes with that report.
C24_NoFindingsIsLow ==
    NothingFound =>
        \A r \in Reports(1) :
            /\ r.risk_level = "LOW"
            /\ r.findings = <<>>
            /\ r.summary.total_findings = 0

\* A job with a Solidity file on which every analyzer returned nothing has
\* completed.
C24_Witness ==
    /\ sol_count > 0
    /\ NothingFound
    /\ 1 \in Known
    /\ jobs[1].status = COMPLETED
    /\ jobs[1].report # None
    /\ jobs[1].report[1].risk_level = "LOW"
    /\ disk[1].html # None

\* The reports of job j that carry a signature: the pipeline's own, the one
\* in the job record (which pollers are served) and the one on disk.
SignedReports(j) ==
    {r \in Reports(j) \cup (IF disk[j].json # None THEN {disk[j].json[1]} ELSE {}) :
        r.signature # None}

\* C25: once the signature of a report is set no step changes the report's
\* canonical serialization, and the report in the job record, on disk and
\* served to pollers serializes to the canonical bytes that were signed.
C25_SignedBytesAreStoredBytes ==
    /\ [](\A j \in JobIds : \A r \in SignedReports(j) :
              r.signature[1].digest = Canonical(ModelDump(r)))
    /\ [][\A j \in JobIds :
            (report[j] # None /\ report[j][1].signature # None /\ report'[j] # None)
                => Canonical(ModelDump(report'[j][1])) = Canonical(ModelDump(report[j][1]))]_vars

AsMapping(d) == [k \in {d[i][1] : i \in 1..Len(d)} |->
                    (CHOOSE e \in Range(d) : e[1] = k)[2]]

Content(d) ==
    LET top == AsMapping(d)
    IN [k \in DOMAIN top |-> IF k = "summary" THEN AsMapping(top[k]) ELSE top[k]]

\* C26: sign_report on two report dicts of equal content gives the same
\* signature when the same process signs both, whatever the insertion order
\* of their keys, and different signatures when different processes sign.
C26_SignDeterministic ==
    (output # None /\ Len(output[1]) = 2 /\ Content(input[1]) = Content(input[2]))
        => (output[1][1].signature = output[1][2].signature
                <=> output[1][1].process = output[1][2].process)

\* One process has signed two dicts of equal content whose keys were
\* inserted in different orders, at the top and in the summary.
C26_Witness ==
    /\ output # None /\ Len(output[1]) = 2
    /\ Content(input[1]) = Content(input[2])
    /\ input[1][1][1] # input[2][1][1]
    /\ \E i, k \in 1..3 :
          /\ input[1][i][1] = "summary" /\ input[2][k][1] = "summary"
          /\ input[1][i][2] # input[2][k][2]
    /\ output[1][1].process = output[1][2].process
    /\ output[1][1].signature = output[1][2].signature

\* C28: get on an id that has no record returns none, and a call of
\* update_status, save_report or save_html_report on such an id makes no
\* record: only create does, so a later get still returns none.
C28_UnknownStaysUnknown ==
    [][\A j \in JobIds :
         (StoreGet(jobs, j) = None /\ ~CallCreate(j)) => StoreGet(jobs', j) = None]_vars

\* save_report has been called on an id that has no record: its report file
\* is on disk and the id is still unknown.
C28_Witness ==
    \E j \in JobIds : j \notin Known /\ disk[j].json # None /\ StoreGet(jobs, j) = None

\* The job ids the submission handler has created in the store: it is about
\* to enqueue them, or has, and has then returned them.
Submitted == {j \in DOMAIN pc : pc[j] \notin {"none", "create"}}

\* C29: submission creates the record, pending, before it hands the job to
\* the pool, and does not wait for the pipeline: an id it has enqueued or
\* returned has a record from then on, so the pipeline's update_status and
\* save_report always find the record of their job.
C29_RecordBeforeEnqueue ==
    /\ [](Submitted \subseteq Known)
    /\ [](\A i \in 1..Len(queue) : queue[i] \in Known /\ jobs[queue[i]].status = PENDING)
    /\ [][Known \subseteq DOMAIN jobs']_vars
    /\ [][\A j \in DOMAIN pc :
            (pc[j] = "created" /\ pc'[j] = "queued")
                => /\ j \in Known /\ jobs[j].status = PENDING
                   /\ jobs' = jobs]_vars

\* The handler has returned the id of a job that is pending in the queue
\* while the pipeline of an earlier job is updating the store.
C29_Witness ==
    \E j, k \in Known :
        /\ pc[j] = "queued" /\ jobs[j].status = PENDING
        /\ pc[k] = "save_report" /\ lock = k

\* C30: in every state that submissions and pipelines reach, a job whose
\* error field is set has status failed: no pending, processing or completed
\* job carries an error.
C30_ErrorOnlyWhenFailed ==
    \A j \in Known : jobs[j].error # None => jobs[j].status = FAILED

\* One job has failed with its error set while another is completed, its
\* report stored and no error on it.
C30_Witness ==
    \E j, k \in Known :
        /\ jobs[j].status = FAILED /\ jobs[j].error # None
        /\ jobs[k].status = COMPLETED /\ jobs[k].error = None /\ pc[k] = "done"

\* C31: consolidation starts only when every task submitted to the pool has
\* returned or raised: at the step that deduplicates and returns, and in
\* every state outside the loop, no task of the batch waits or runs, and the
\* list of findings does not change once the loop is left.
C31_ConsolidateAfterAllTasks ==
    /\ [](pc[1] # "collect" => running = {} /\ Waiting = {})
    /\ [][(pc[1] = "collect" /\ pc'[1] = "build")
            => /\ running = {} /\ Waiting = {}
               /\ \A t \in DOMAIN outcome : outcome[t] # None]_vars
    /\ [][pc[1] # "collect" /\ pc'[1] # "collect" => all_findings' = all_findings]_vars

\* A batch of several tasks on a single worker thread has been consolidated:
\* tasks had to wait, and all have ended.
C31_Witness ==
    /\ analysis_workers = 1
    /\ Cardinality(DOMAIN outcome) >= 2
    /\ pc[1] = "build"
    /\ found[1] # None
    /\ found[1][1].findings # <<>>
    /\ \A t \in DOMAIN outcome : outcome[t] # None

\* What analyze_directory returns when the tasks of the batch, with the
\* results they gave, complete in the given order.
ResultInOrder(order) ==
    AnalysisResult(sol_count, mythril_ok, groq_ok,
                   CollectAll(order, [t \in DOMAIN outcome |-> outcome[t][1]], <<>>))

RankSequence(findings) ==
    [i \in 1..Len(findings) |-> SourcePriority(findings[i].source)]

\* C32: with the files and the result of every task fixed, any order of
\* completion of the tasks gives the same set of findings kept, the same
\* summary and the same risk level as the order that took place; the lists
\* agree rank by rank, so only findings of equal rank can change places.
C32_CompletionOrderIrrelevant ==
    (pc[1] = "build" /\ found[1] # None /\ sol_count > 0) =>
        \A order \in Orders(DOMAIN outcome) :
            LET other == ResultInOrder(order)
            IN /\ Range(other.findings) = Range(found[1][1].findings)
               /\ Len(other.findings) = Len(found[1][1].findings)
               /\ BuildSummary(other) = BuildSummary(found[1][1])
               /\ BuildReport(other).risk_level = BuildReport(found[1][1]).risk_level
               /\ RankSequence(other.findings) = RankSequence(found[1][1].findings)

\* The AI task completed before the heuristic scan of the same file, both
\* reported the same construct, and analyze_directory has returned.
C32_Witness ==
    /\ pc[1] = "build"
    /\ found[1] # None
    /\ all_findings = <<AiFinding(1), HeurFinding(1), HeurSecond(1)>>
    /\ found[1][1].findings = <<AiFinding(1), HeurSecond(1)>>

\* The positions of a worker handling the failure of its pipeline: the except
\* clauses of run_audit_pipeline and of _process_job, up to the return.
FailurePcs ==
    {"except", "except_status", "except_error", "reraise", "reraise_status",
     "reraise_error", "return"}

\* C33: the failure of a job's pipeline leaves the record and the files of
\* every other job as they are and gives the worker back to the pool: a job
\* in the queue is still taken by a worker and reaches completed or failed.
C33_FailureIsContained ==
    /\ [][\A j \in DOMAIN pc :
            (pc[j] \in FailurePcs /\ pc'[j] # pc[j])
                => /\ DOMAIN jobs' = DOMAIN jobs
                   /\ \A k \in Known \ {j} : jobs'[k] = jobs[k] /\ disk'[k] = disk[k]
                   /\ queue' = queue]_vars
    /\ [](\A j \in DOMAIN pc : pc[j] = "end" => j \notin Running /\ jobs[j].status = FAILED)
    /\ \A k \in QueueJobIds :
          (pc[k] = "queued") ~> (k \in Known /\ pc[k] \in {"done", "end"}
                                   /\ jobs[k].status \in Terminal)

\* Two pipelines have failed and their workers have returned; the job that
\* was queued behind them has been taken by a worker and has completed.
C33_Witness ==
    /\ pc[1] = "end" /\ jobs[1].status = FAILED
    /\ pc[2] = "end" /\ jobs[2].status = FAILED
    /\ pc[3] = "done" /\ jobs[3].status = COMPLETED /\ jobs[3].report # None

\* The positions of _process_job's call of update_status, the second call
\* that marks the job failed.
SecondCallPcs == {"reraise", "reraise_status", "reraise_error"}

\* C34: on a pipeline failure the job is marked failed twice with the same
\* message; when the second call starts the record is failed with the error
\* of the first call, and no step of the second call changes the record:
\* status, error and report after it are those after the first call.
C34_MarkingFailedIsIdempotent ==
    /\ [](\A j \in DOMAIN pc :
            pc[j] \in SecondCallPcs \cup {"return"}
                => /\ jobs[j].status = FAILED
                   /\ Truthy(ExcStr(j)) => jobs[j].error = ExcStr(j))
    /\ [][\A j \in DOMAIN pc :
            (pc[j] \in SecondCallPcs /\ pc'[j] # pc[j]) => jobs'[j] = jobs[j]]_vars

\* Both calls are over for a failure with a message: the record is failed
\* and holds the message.
C34_Witness ==
    /\ pc[1] = "return"
    /\ jobs[1].status = FAILED
    /\ jobs[1].error = Some("File is not a zip file")
    /\ ExcStr(1) = jobs[1].error

\* C35: while a job's record says completed and the store's lock is free,
\* so that a poll can read it, report.json and report.html are on disk and
\* GET /report/{job_id} answers with the HTML report, not with 404.
C35_CompletedHasFiles ==
    \A j \in Known :
        (jobs[j].status = COMPLETED /\ lock = 0)
            => /\ disk[j].json # None
               /\ disk[j].html # None
               /\ GetHtmlReport(disk, j).status_code = "200"

C37_SummaryAgreesWithFindings ==
    \A r \in Reports(1) :
        LET u == r.summary
        IN /\ u.total_findings = Len(r.findings)
           /\ u.critical + u.high + u.medium + u.low + u.info = u.total_findings
           /\ u.critical = ClaimCount(r.findings, "critical")
           /\ u.high = ClaimCount(r.findings, "high")
           /\ u.medium = ClaimCount(r.findings, "medium")
           /\ u.low = ClaimCount(r.findings, "low")
           /\ u.info = ClaimCount(r.findings, "info")
           /\ r.risk_level = CalculateRiskLevel(r.findings)
           /\ r.risk_level = ClaimRisk(r.findings)

\* A job has completed with a report of two findings, one critical and one
\* medium.
C37_Witness ==
    /\ 1 \in Known
    /\ jobs[1].status = COMPLETED
    /\ jobs[1].report # None
    /\ Len(jobs[1].report[1].findings) = 2
    /\ jobs[1].report[1].summary.critical = 1
    /\ jobs[1].report[1].summary.medium = 1
    /\ jobs[1].report[1].risk_level = "CRITICAL"

\* The keys of the findings of list s.
ClaimKeys(s) == {ClaimKey(s[i]) : i \in 1..Len(s)}

\* C38: every finding in the output of _deduplicate_findings is a finding of
\* the input with all its fields, the output is no longer than the input,
\* and the keys of the output are exactly the keys of the input.
C38_NoLocationInventedOrLost ==
    output # None =>
        /\ Range(output[1]) \subseteq Range(input)
        /\ Len(output[1]) <= Len(input)
        /\ ClaimKeys(output[1]) = ClaimKeys(input)

\* Three findings of one file and bucket went in, two of them of one
\* category: the two categories are both in the output, each with a finding
\* of the input.
C38_Witness ==
    /\ output # None
    /\ Len(input) = 3
    /\ Cardinality(Range(input)) = 3
    /\ \A i \in 1..3 : /\ input[i].file_path = input[1].file_path
                        /\ LineBucket(input[i]) = LineBucket(input[1])
    /\ Cardinality(ClaimKeys(input)) = 2
    /\ Len(output[1]) = 2
    /\ output[1][1].category # output[1][2].category

\* List s with the severity of every finding replaced by sev.
WithSeverity(s, sev) == [i \in 1..Len(s) |-> [s[i] EXCEPT !.severity = sev]]

\* The position in the input of the finding kept for the key of input[i]:
\* the first of the highest trust rank among the findings of that key.
ClaimSurvivor(s, i) ==
    CHOOSE k \in 1..Len(s) :
        /\ ClaimKey(s[k]) = ClaimKey(s[i])
        /\ \A m \in 1..Len(s) :
              ClaimKey(s[m]) = ClaimKey(s[i])
                  => \/ ClaimRank(s[m].source) < ClaimRank(s[k].source)
                     \/ (ClaimRank(s[m].source) = ClaimRank(s[k].source) /\ k <= m)

\* C39: the finding kept for a key is the first in the input of the highest
\* trust rank among the findings of that key, whatever the severities: the
\* same positions survive when every severity is replaced by one value. The
\* risk level of the deduplicated list is never above that of the raw list.
C39_SeverityPlaysNoPart ==
    output # None =>
        /\ Range(output[1]) = {input[ClaimSurvivor(input, i)] : i \in 1..Len(input)}
        /\ \A sev \in Severity :
              WithSeverity(output[1], sev) = DeduplicateFindings(WithSeverity(input, sev))
        /\ risk_level # None
        /\ risk_level[1] = CalculateRiskLevel(output[1])
        /\ RiskOrder(risk_level[1]) <= RiskOrder(CalculateRiskLevel(input))

\* A critical heuristic finding and a low Mythril finding of the same key
\* went in: the low one alone came out, and the risk level CRITICAL of the
\* raw findings has become LOW.
C39_Witness ==
    /\ output # None
    /\ input = <<Finding(1, 41, "reentrancy", HEURISTIC, "critical"),
                 Finding(1, 41, "reentrancy", MYTHRIL, "low")>>
    /\ output[1] = <<Finding(1, 41, "reentrancy", MYTHRIL, "low")>>
    /\ CalculateRiskLevel(input) = "CRITICAL"
    /\ risk_level = Some("LOW")

\* floor(line / 5), an unlocated finding counting as line 0.
ClaimFloor(f) == (IF f.line_number = NoLine THEN 0 ELSE f.line_number) \div 5

\* The findings of list s on any of the given lines.
OnLines(s, lines) == {i \in 1..Len(s) : s[i].line_number \in lines}

\* Findings f and g of the input are merged: the output holds one finding
\* for both, of their file and category.
ClaimMerged(out, f, g) ==
    \E k \in 1..Len(out) :
        /\ out[k].file_path = f.file_path /\ out[k].category = f.category
        /\ ClaimFloor(out[k]) = ClaimFloor(f)
        /\ ClaimFloor(out[k]) = ClaimFloor(g)

\* C40: two input findings of one file and category are merged into one
\* output finding exactly when floor(line / 5) is the same for both, and
\* then one finding only of that value is kept. Lines 40 and 44 merge, the
\* adjacent lines 44 and 45 are both kept, and lines 1 to 4 merge with an
\* unlocated finding.
C40_MergedExactlyInOneBucket ==
    output # None =>
        LET out == output[1]
        IN /\ \A i, k \in 1..Len(input) :
                (input[i].file_path = input[k].file_path
                 /\ input[i].category = input[k].category)
                    => (ClaimMerged(out, input[i], input[k])
                            <=> ClaimFloor(input[i]) = ClaimFloor(input[k]))
           /\ \A i, k \in 1..Len(out) :
                (i # k /\ out[i].file_path = out[k].file_path
                 /\ out[i].category = out[k].category)
                    => ClaimFloor(out[i]) # ClaimFloor(out[k])
           /\ OnLines(input, {40, 44}) # {} => Cardinality(OnLines(out, {40, 44})) = 1
           /\ OnLines(input, {45}) # {} => Cardinality(OnLines(out, {45})) = 1
           /\ OnLines(input, {NoLine, 1, 4}) # {}
                => Cardinality(OnLines(out, {NoLine, 1, 4})) = 1

\* Findings on lines 40, 44 and 45 of one file and category went in: the
\* one on line 40 stands for lines 40 and 44, the one on line 45 is kept
\* next to it.
C40_Witness ==
    /\ output # None
    /\ Len(input) = 3
    /\ input[1].line_number = 44 /\ input[2].line_number = 45 /\ input[3].line_number = 40
    /\ input[1].source = HEURISTIC /\ input[2].source = HEURISTIC /\ input[3].source = AI
    /\ output[1] = <<input[3], input[2]>>

====
